---- MODULE Spec2Model ----
(***************************************************************************)
(* State-machine model of the ArticleScraperForm component                 *)
(* (src/src/components/ArticleScraperForm.tsx).                            *)
(*                                                                         *)
(* Strings are sequences of one-character strings, so that the two         *)
(* validators are computed on the text itself.  JavaScript runs each event *)
(* handler and each continuation after an await to completion, so every    *)
(* action below is one such run: the synchronous part of handleSubmit, the *)
(* continuation after `await fetch`, the continuation after                *)
(* `await response.json()`, handleInputChange and resetForm.  State        *)
(* updates made in one run are rendered before the next user event.        *)
(* The browser's own constraint validation of the inputs (required,        *)
(* type="email", type="url") is not relied upon: a submit event is         *)
(* accepted whenever the form is rendered and its button is not disabled.  *)
(***************************************************************************)
EXTENDS Integers, Sequences, FiniteSets, TLC

VARIABLES formData, isLoading, isSuccess, toasts, requests, lastOp

vars == <<formData, isLoading, isSuccess, toasts, requests, lastOp>>

(* Bound on the number of submit events of one behaviour. *)
MaxSubmits == 3

----------------------------------------------------------------------------
(* Text helpers *)

Whitespace == {" "}

Digits == {"0", "1", "2", "3", "4", "5", "6", "7", "8", "9"}

Alpha == {"a", "b", "c", "d", "e", "f", "g", "h", "i", "j", "k", "l", "m",
          "n", "o", "p", "q", "r", "s", "t", "u", "v", "w", "x", "y", "z"}

(* Positions of character c in s *)
Positions(s, c) == {i \in 1..Len(s) : s[i] = c}

Min(S) == CHOOSE x \in S : \A y \in S : x <= y

Max(S) == CHOOSE x \in S : \A y \in S : x >= y

(* The pattern without its "\\." part: /^[^\s@]+@[^\s@]+$/ *)
validateEmailNoDot(email) ==
    \E i \in 1..Len(email) :
        /\ email[i] = "@"
        /\ \A k \in (1..Len(email)) \ {i} : email[k] \notin (Whitespace \cup {"@"})
        /\ i > 1
        /\ i < Len(email)

(* /^[^\s@]+@[^\s@]+\.[^\s@]+$/.test(email) *)
validateEmail(email) ==
    \E i \in 1..Len(email) :
        /\ email[i] = "@"
        /\ \A k \in (1..Len(email)) \ {i} : email[k] \notin (Whitespace \cup {"@"})
        /\ i > 1
        /\ \E j \in (i + 2)..(Len(email) - 1) : email[j] = "."

----------------------------------------------------------------------------
(* new URL(url) with no base: the URL parser of the platform, written out   *)
(* for texts over letters, digits, ":", "/", "." and the space.            *)

SchemeChars == Alpha \cup Digits \cup {"+", "-", "."}

SpecialSchemes == { <<"f", "t", "p">>, <<"h", "t", "t", "p">>,
                    <<"h", "t", "t", "p", "s">>, <<"w", "s">>,
                    <<"w", "s", "s">> }

FileScheme == <<"f", "i", "l", "e">>

(* Code points the host parser rejects *)
ForbiddenHostChars == {" ", ":", "/", "#", "<", ">", "?", "@", "[", "\\", "]", "^", "|"}

(* Leading and trailing spaces are removed before parsing *)
StripSpaces(s) ==
    LET keep == {i \in 1..Len(s) : s[i] \notin Whitespace}
    IN  IF keep = {} THEN <<>> ELSE SubSeq(s, Min(keep), Max(keep))

(* s without its leading "/" characters *)
SkipSlashes(s) ==
    LET other == {i \in 1..Len(s) : s[i] # "/"}
    IN  IF other = {} THEN <<>> ELSE SubSeq(s, Min(other), Len(s))

(* The part of s before its first "/" *)
UpToSlash(s) ==
    LET sl == Positions(s, "/")
    IN  IF sl = {} THEN s ELSE SubSeq(s, 1, Min(sl) - 1)

HostOK(host) == \A k \in 1..Len(host) : host[k] \notin ForbiddenHostChars

(* Value of a text of digits *)
RECURSIVE PortValue(_)
PortValue(p) ==
    IF p = <<>> THEN 0
    ELSE 10 * PortValue(SubSeq(p, 1, Len(p) - 1))
         + (CHOOSE d \in 0..9 : ToString(d) = p[Len(p)])

PortOK(port) ==
    /\ \A k \in 1..Len(port) : port[k] \in Digits
    /\ Len(port) <= 5
    /\ PortValue(port) <= 65535

(* authority = host [":" port]; a special scheme needs a non-empty host *)
AuthorityOK(authority, special) ==
    LET colons == Positions(authority, ":")
    IN  IF colons = {}
        THEN (special => authority # <<>>) /\ HostOK(authority)
        ELSE LET p == Min(colons)
             IN  /\ p > 1
                 /\ HostOK(SubSeq(authority, 1, p - 1))
                 /\ PortOK(SubSeq(authority, p + 1, Len(authority)))

StartsWithTwoSlashes(s) == Len(s) >= 2 /\ s[1] = "/" /\ s[2] = "/"

IsDriveLetter(s) == Len(s) = 2 /\ s[1] \in Alpha /\ s[2] = ":"

(* What follows "scheme:" *)
AfterSchemeOK(scheme, rest) ==
    IF scheme = FileScheme
    THEN IF StartsWithTwoSlashes(rest)
         THEN LET host == UpToSlash(SubSeq(rest, 3, Len(rest)))
              IN  host = <<>> \/ IsDriveLetter(host) \/ HostOK(host)
         ELSE TRUE
    ELSE IF scheme \in SpecialSchemes
    THEN AuthorityOK(UpToSlash(SkipSlashes(rest)), TRUE)
    ELSE IF StartsWithTwoSlashes(rest)
    THEN AuthorityOK(UpToSlash(SubSeq(rest, 3, Len(rest))), FALSE)
    ELSE TRUE

(* TRUE iff new URL(url) does not throw *)
UrlParses(url) ==
    LET input == StripSpaces(url)
        colons == Positions(input, ":")
    IN  /\ input # <<>>
        /\ input[1] \in Alpha
        /\ colons # {}
        /\ \A k \in 2..(Min(colons) - 1) : input[k] \in SchemeChars
        /\ AfterSchemeOK(SubSeq(input, 1, Min(colons) - 1),
                         SubSeq(input, Min(colons) + 1, Len(input)))

(* The scheme of a text that parses, and what follows its ":" *)
UrlScheme(url) ==
    LET input == StripSpaces(url)
    IN  SubSeq(input, 1, Min(Positions(input, ":")) - 1)

UrlAfterScheme(url) ==
    LET input == StripSpaces(url)
    IN  SubSeq(input, Min(Positions(input, ":")) + 1, Len(input))

(* The host of the parsed URL is null: a scheme that is neither special    *)
(* nor file, not followed by "//"                                          *)
UrlHostIsNull(url) ==
    /\ UrlScheme(url) \notin (SpecialSchemes \cup {FileScheme})
    /\ ~StartsWithTwoSlashes(UrlAfterScheme(url))

(* return true on both paths *)
validateUrlAlwaysTrue(url) == TRUE

(* try { new URL(url); return true } catch { return false } *)
validateUrl(url) == UrlParses(url)

----------------------------------------------------------------------------
(* Values the user can type and the backend can answer *)

EmptyText == <<>>

EmailInputs == { EmptyText,
                 <<"u", "@", "e">>,
                 <<"u", "@", "e", ".", "c">> }

UrlInputs == { EmptyText,
               <<"n", "o", "t", " ", "a">>,
               <<"w", "s", ":", "/", "/", "a">> }

Fields == {"email", "article_url"}

FieldInputs(field) == IF field = "email" THEN EmailInputs ELSE UrlInputs

(* HTTP status codes of a response *)
Statuses == {200, 500}

(* JavaScript values of the ok property of a parsed body, by their literal; *)
(* "undefined" is an absent property.                                      *)
OkValues == {"true", "false", "undefined", "1", "0"}

(* Parsed bodies: an object with its ok value, or the JSON value null *)
ParsedBodies == [kind : {"object"}, ok : OkValues]
                    \cup {[kind |-> "null", ok |-> "undefined"]}

(* No body was read: the fetch failed or the status was not 2xx *)
NoBody == [kind |-> "none", ok |-> "undefined"]

(* response.json() rejected *)
UnparseableBody == [kind |-> "unparseable", ok |-> "undefined"]

(* response.ok *)
ResponseOk(status) == status >= 200 /\ status <= 299

(* Truthiness of a JavaScript value *)
Truthy(v) == v \notin {"false", "undefined", "null", "0", "NaN", "''"}

----------------------------------------------------------------------------
(* Toasts *)

InvalidEmailToast == [title |-> "Invalid Email",
                      description |-> "Please enter a valid email address.",
                      variant |-> "destructive"]

InvalidUrlToast == [title |-> "Invalid URL",
                    description |-> "Please enter a valid article URL.",
                    variant |-> "destructive"]

SuccessToast == [title |-> "Success",
                 description |-> "Your request has been submitted successfully!",
                 variant |-> "default"]

ErrorToast == [title |-> "Error",
               description |-> "Failed to submit request. Please make sure the backend is running.",
               variant |-> "destructive"]

----------------------------------------------------------------------------
(* State *)

(* useState initial values; no toast fired, no request issued *)
Init ==
    /\ formData = [email |-> EmptyText, article_url |-> EmptyText]
    /\ isLoading = FALSE
    /\ isSuccess = FALSE
    /\ toasts = <<>>
    /\ requests = <<>>
    /\ lastOp = "init"

(* The body built with the email in both properties *)
NewRequestEmailTwice(fd) ==
    [body |-> [email |-> fd.email, article_url |-> fd.email],
     pc |-> "fetch", status |-> 0, result |-> [kind |-> "none", ok |-> "undefined"]]

(* A request issued by fetch and the position of the handleSubmit call     *)
(* that awaits it: "fetch" (awaiting the response), "json" (awaiting the   *)
(* body parse), "done" (the call has returned).  status is the response's  *)
(* status code, 0 while there is no response or when the fetch rejected;   *)
(* result is the outcome of response.json().                               *)
NewRequest(fd) ==
    [body |-> [email |-> fd.email, article_url |-> fd.article_url],
     pc |-> "fetch", status |-> 0, result |-> NoBody]

Outstanding == {i \in 1..Len(requests) : requests[i].pc # "done"}

(* The form rendered outside the conditional, next to the success panel *)
FormAlwaysShown == TRUE

(* The reset button rendered outside the conditional *)
ResetAlwaysShown == TRUE

(* The conditional render: the success panel or the form *)
FormShown == ~isSuccess

ResetShown == isSuccess

(* The submit button never disabled *)
SubmitNeverDisabled == FALSE

(* The submit button is rendered with disabled={isLoading} *)
SubmitDisabled == isLoading

SubmitEnabled == FormShown /\ ~SubmitDisabled

(* Number of submit events so far *)
SubmitCount ==
    Len(requests)
    + Cardinality({i \in 1..Len(toasts) :
                      toasts[i].title \in {"Invalid Email", "Invalid URL"}})

----------------------------------------------------------------------------
(* Operations *)

(* setFormData without the spread of prev: the other field is lost *)
handleInputChangeNoSpread(field, value) ==
    /\ FormShown
    /\ formData' = [f \in Fields |-> IF f = field THEN value ELSE EmptyText]
    /\ lastOp' = "handleInputChange"
    /\ UNCHANGED <<isLoading, isSuccess, toasts, requests>>

(* setFormData(prev => ({ ...prev, [field]: value })) *)
handleInputChange(field, value) ==
    /\ FormShown
    /\ formData' = [formData EXCEPT ![field] = value]
    /\ lastOp' = "handleInputChange"
    /\ UNCHANGED <<isLoading, isSuccess, toasts, requests>>

(* The email check left out *)
EmailNeverRejected(fd) == FALSE

(* if (!validateEmail(formData.email)) *)
EmailRejected(fd) == ~validateEmail(fd.email)

(* if (!validateUrl(formData.article_url)) *)
UrlRejected(fd) == ~validateUrl(fd.article_url)

(* The email branch without its return: the URL check runs as well *)
SubmitInvalidEmailNoReturn ==
    /\ EmailRejected(formData)
    /\ toasts' = IF UrlRejected(formData)
                 THEN Append(Append(toasts, InvalidEmailToast), InvalidUrlToast)
                 ELSE Append(toasts, InvalidEmailToast)
    /\ UNCHANGED <<formData, isLoading, isSuccess, requests>>

SubmitInvalidEmail ==
    /\ EmailRejected(formData)
    /\ toasts' = Append(toasts, InvalidEmailToast)
    /\ UNCHANGED <<formData, isLoading, isSuccess, requests>>

(* The URL branch firing the email branch's toast *)
SubmitInvalidUrlEmailToast ==
    /\ ~EmailRejected(formData)
    /\ UrlRejected(formData)
    /\ toasts' = Append(toasts, InvalidEmailToast)
    /\ UNCHANGED <<formData, isLoading, isSuccess, requests>>

SubmitInvalidUrl ==
    /\ ~EmailRejected(formData)
    /\ UrlRejected(formData)
    /\ toasts' = Append(toasts, InvalidUrlToast)
    /\ UNCHANGED <<formData, isLoading, isSuccess, requests>>

(* setIsLoading(true); fetch(...) up to the first await *)
SubmitIssue ==
    /\ ~EmailRejected(formData)
    /\ ~UrlRejected(formData)
    /\ isLoading' = TRUE
    /\ requests' = Append(requests, NewRequest(formData))
    /\ UNCHANGED <<formData, isSuccess, toasts>>

(* The synchronous part of handleSubmit, run on a submit event *)
handleSubmit ==
    /\ SubmitEnabled
    /\ SubmitCount < MaxSubmits
    /\ lastOp' = "handleSubmit"
    /\ \/ SubmitInvalidEmail
       \/ SubmitInvalidUrl
       \/ SubmitIssue

(* The catch block also clearing the form *)
CatchFinallyClearsForm(i, status, result) ==
    /\ toasts' = Append(toasts, ErrorToast)
    /\ isLoading' = FALSE
    /\ formData' = [email |-> EmptyText, article_url |-> EmptyText]
    /\ requests' = [requests EXCEPT ![i] =
                       [@ EXCEPT !.pc = "done", !.status = status, !.result = result]]
    /\ UNCHANGED isSuccess

(* The catch block without the finally block *)
CatchWithoutFinally(i, status, result) ==
    /\ toasts' = Append(toasts, ErrorToast)
    /\ requests' = [requests EXCEPT ![i] =
                       [@ EXCEPT !.pc = "done", !.status = status, !.result = result]]
    /\ UNCHANGED <<formData, isSuccess, isLoading>>

(* catch (error) { toast(Error) } finally { setIsLoading(false) } *)
CatchFinally(i, status, result) ==
    /\ toasts' = Append(toasts, ErrorToast)
    /\ isLoading' = FALSE
    /\ requests' = [requests EXCEPT ![i] =
                       [@ EXCEPT !.pc = "done", !.status = status, !.result = result]]
    /\ UNCHANGED <<formData, isSuccess>>

(* await fetch rejects: a network-level fault *)
FetchRejected(i) ==
    /\ i \in 1..Len(requests)
    /\ requests[i].pc = "fetch"
    /\ lastOp' = "fetchRejected"
    /\ CatchFinally(i, 0, NoBody)

(* Loading cleared as soon as the response arrives, before its body parse *)
FetchResolvedClearsLoading(i, status) ==
    /\ i \in 1..Len(requests)
    /\ requests[i].pc = "fetch"
    /\ lastOp' = "fetchResolved"
    /\ IF ~ResponseOk(status)
       THEN CatchFinally(i, status, NoBody)
       ELSE /\ requests' = [requests EXCEPT ![i] =
                               [@ EXCEPT !.pc = "json", !.status = status]]
            /\ isLoading' = FALSE
            /\ UNCHANGED <<formData, isSuccess, toasts>>

(* The response's status not checked: every response goes on to its parse *)
FetchResolvedNoStatusCheck(i, status) ==
    /\ i \in 1..Len(requests)
    /\ requests[i].pc = "fetch"
    /\ lastOp' = "fetchResolved"
    /\ requests' = [requests EXCEPT ![i] =
                       [@ EXCEPT !.pc = "json", !.status = status]]
    /\ UNCHANGED <<formData, isLoading, isSuccess, toasts>>

(* await fetch resolves with a response of the given status *)
FetchResolved(i, status) ==
    /\ i \in 1..Len(requests)
    /\ requests[i].pc = "fetch"
    /\ lastOp' = "fetchResolved"
    /\ IF ~ResponseOk(status)
       THEN CatchFinally(i, status, NoBody)
       ELSE /\ requests' = [requests EXCEPT ![i] =
                               [@ EXCEPT !.pc = "json", !.status = status]]
            /\ UNCHANGED <<formData, isLoading, isSuccess, toasts>>

(* The rejected body parse not caught: no toast, loading never cleared *)
JsonRejectedUncaught(i) ==
    /\ i \in 1..Len(requests)
    /\ requests[i].pc = "json"
    /\ lastOp' = "jsonRejected"
    /\ requests' = [requests EXCEPT ![i] =
                       [@ EXCEPT !.pc = "done", !.result = UnparseableBody]]
    /\ UNCHANGED <<formData, isLoading, isSuccess, toasts>>

(* await response.json() rejects: the body is not JSON *)
JsonRejected(i) ==
    /\ i \in 1..Len(requests)
    /\ requests[i].pc = "json"
    /\ lastOp' = "jsonRejected"
    /\ CatchFinally(i, requests[i].status, UnparseableBody)

(* if (result): the body tested instead of its ok property *)
ResultOkTestsBody(result) == result.kind = "object"

(* if (result.ok): reading ok of null throws; otherwise truthiness *)
ResultOk(result) == result.kind = "object" /\ Truthy(result.ok)

(* setIsLoading(false) in the catch block only: not run after a success *)
SuccessWithoutFinally(i, result) ==
    /\ isSuccess' = TRUE
    /\ toasts' = Append(toasts, SuccessToast)
    /\ requests' = [requests EXCEPT ![i] =
                       [@ EXCEPT !.pc = "done", !.result = result]]
    /\ UNCHANGED <<formData, isLoading>>

(* The success branch without its toast *)
SuccessWithoutToast(i, result) ==
    /\ isSuccess' = TRUE
    /\ isLoading' = FALSE
    /\ requests' = [requests EXCEPT ![i] =
                       [@ EXCEPT !.pc = "done", !.result = result]]
    /\ UNCHANGED <<formData, toasts>>

(* setIsSuccess(true); toast(Success); finally { setIsLoading(false) } *)
SuccessFinally(i, result) ==
    /\ isSuccess' = TRUE
    /\ toasts' = Append(toasts, SuccessToast)
    /\ isLoading' = FALSE
    /\ requests' = [requests EXCEPT ![i] =
                       [@ EXCEPT !.pc = "done", !.result = result]]
    /\ UNCHANGED formData

(* await response.json() resolves with the parsed body *)
JsonResolved(i, result) ==
    /\ i \in 1..Len(requests)
    /\ requests[i].pc = "json"
    /\ lastOp' = "jsonResolved"
    /\ IF ResultOk(result)
       THEN SuccessFinally(i, result)
       ELSE CatchFinally(i, requests[i].status, result)

(* resetForm without setFormData *)
resetFormKeepsFields ==
    /\ ResetShown
    /\ isSuccess' = FALSE
    /\ lastOp' = "resetForm"
    /\ UNCHANGED <<formData, isLoading, toasts, requests>>

(* setFormData({ email: "", article_url: "" }); setIsSuccess(false) *)
resetForm ==
    /\ ResetShown
    /\ formData' = [email |-> EmptyText, article_url |-> EmptyText]
    /\ isSuccess' = FALSE
    /\ lastOp' = "resetForm"
    /\ UNCHANGED <<isLoading, toasts, requests>>

Next ==
    \/ \E field \in Fields : \E value \in FieldInputs(field) :
           handleInputChange(field, value)
    \/ handleSubmit
    \/ \E i \in 1..MaxSubmits : FetchRejected(i)
    \/ \E i \in 1..MaxSubmits : \E status \in Statuses : FetchResolved(i, status)
    \/ \E i \in 1..MaxSubmits : JsonRejected(i)
    \/ \E i \in 1..MaxSubmits : \E result \in ParsedBodies : JsonResolved(i, result)
    \/ resetForm

Spec == Init /\ [][Next]_vars

----------------------------------------------------------------------------
(* The validators on arbitrary typed text: the form holds any text of      *)
(* bounded length in one field and a valid value in the other, and is      *)
(* submitted.                                                              *)

MaxEmailLen == 5

MaxUrlLen == 6

EmailAlphabet == {"u", "@", ".", " "}

UrlAlphabet == {"w", "s", ":", "/", " "}

RECURSIVE TextsOfLen(_, _)
TextsOfLen(alphabet, n) ==
    IF n = 0 THEN {<<>>}
    ELSE {Append(t, c) : t \in TextsOfLen(alphabet, n - 1), c \in alphabet}

Texts(alphabet, maxLen) == UNION {TextsOfLen(alphabet, n) : n \in 0..maxLen}

ValidEmailText == <<"u", "@", "e", ".", "c">>

ValidUrlText == <<"w", "s", ":", "/", "/", "a">>

ValidatorInit ==
    /\ \/ \E e \in Texts(EmailAlphabet, MaxEmailLen) :
              formData = [email |-> e, article_url |-> ValidUrlText]
       \/ \E u \in Texts(UrlAlphabet, MaxUrlLen) :
              formData = [email |-> ValidEmailText, article_url |-> u]
    /\ isLoading = FALSE
    /\ isSuccess = FALSE
    /\ toasts = <<>>
    /\ requests = <<>>
    /\ lastOp = "init"

ValidatorNext == handleSubmit

ValidatorSpec == ValidatorInit /\ [][ValidatorNext]_vars

(* Every issued request eventually resolves or rejects, and every body     *)
(* parse eventually ends.                                                  *)
Settle ==
    \E i \in 1..MaxSubmits :
        \/ FetchRejected(i)
        \/ \E status \in Statuses : FetchResolved(i, status)
        \/ JsonRejected(i)
        \/ \E result \in ParsedBodies : JsonResolved(i, result)

FairSpec == Spec /\ WF_vars(Settle)

TypeOK ==
    /\ formData \in [email : EmailInputs, article_url : UrlInputs]
    /\ isLoading \in BOOLEAN
    /\ isSuccess \in BOOLEAN
    /\ Len(toasts) <= MaxSubmits
    /\ Len(requests) <= MaxSubmits

----------------------------------------------------------------------------
(* Properties *)

ValidForm(fd) == validateEmail(fd.email) /\ validateUrl(fd.article_url)

(* C1: a request is issued only by a submit at which validateEmail and     *)
(* validateUrl both returned true for the form's values: every request     *)
(* ever issued carries validated values, a step that changes the number   *)
(* of issued requests is a submit on a valid form and adds exactly one,    *)
(* and a submit on an invalid form leaves the number unchanged.            *)
C1_RequestOnlyAfterValidation ==
    /\ [](\A i \in 1..Len(requests) : ValidForm(requests[i].body))
    /\ [][ /\ Len(requests') # Len(requests) =>
                /\ lastOp' = "handleSubmit"
                /\ ValidForm(formData)
                /\ Len(requests') = Len(requests) + 1
           /\ (lastOp' = "handleSubmit" /\ ~ValidForm(formData)) =>
                requests' = requests ]_vars

(* A request was issued, and a later submit with a valid email and an      *)
(* invalid URL was turned down.                                            *)
C1_Witness ==
    /\ lastOp = "handleSubmit"
    /\ Len(requests) = 1
    /\ Len(toasts) >= 2
    /\ toasts[Len(toasts)] = InvalidUrlToast
    /\ validateEmail(formData.email)
    /\ ~validateUrl(formData.article_url)

(* C2: at most one request is outstanding at any time. *)
C2_AtMostOneOutstanding == Cardinality(Outstanding) <= 1

(* A second request is outstanding after the first one has completed. *)
C2_Witness ==
    /\ Len(requests) = 2
    /\ requests[1].pc = "done"
    /\ requests[2].pc = "fetch"

(* C3: isLoading is true only if a request is still awaiting its response  *)
(* or its body parse.                                                      *)
C3_LoadingOnlyWhileOutstanding == isLoading => Outstanding # {}

(* Loading while the third request awaits its response, after two failures *)
C3_Witness ==
    /\ isLoading
    /\ Len(requests) = 3
    /\ requests[3].pc = "fetch"
    /\ requests[1].pc = "done"
    /\ requests[2].pc = "done"

(* C4: whenever a request is outstanding (awaiting its response or its     *)
(* body parse) isLoading is true, the submit button is disabled, and no    *)
(* step taken from such a state is a submit.                               *)
C4_DisabledWhileOutstanding ==
    /\ [](Outstanding # {} => isLoading /\ SubmitDisabled /\ ~SubmitEnabled)
    /\ [][Outstanding # {} => lastOp' # "handleSubmit"]_vars

(* The response has arrived and its body parse has not ended; the user has *)
(* edited a field meanwhile.                                               *)
C4_Witness ==
    /\ \E i \in 1..Len(requests) : requests[i].pc = "json"
    /\ isLoading
    /\ lastOp = "handleInputChange"

(* The call of handleSubmit that issued request i returns in this step *)
Completes(i) ==
    /\ i \in 1..Len(requests)
    /\ requests[i].pc # "done"
    /\ requests'[i].pc = "done"

(* How a completed request r ended, read off the recorded response *)
NetworkFault(r) == r.status = 0

HttpFailure(r) == r.status # 0 /\ ~(r.status \in 200..299)

BodyUnparseable(r) == r.status \in 200..299 /\ r.result.kind = "unparseable"

OkFalseOrAbsent(r) ==
    /\ r.status \in 200..299
    /\ r.result.kind = "object"
    /\ r.result.ok \in {"false", "undefined"}

OkTrue(r) ==
    /\ r.status \in 200..299
    /\ r.result.kind = "object"
    /\ r.result.ok = "true"

(* C5: every completion (2xx with ok true, non-2xx, ok false or absent,    *)
(* unparseable body, network exception) clears isLoading; after a failure  *)
(* the view is Idle with the form shown and submit enabled; and, every     *)
(* request eventually resolving or rejecting, every state with isLoading   *)
(* true is eventually followed by one with isLoading false.                *)
C5_LoadingClearedOnCompletion ==
    /\ [][ \A i \in 1..Len(requests) : Completes(i) =>
              /\ isLoading' = FALSE
              /\ ( \/ NetworkFault(requests'[i])
                   \/ HttpFailure(requests'[i])
                   \/ BodyUnparseable(requests'[i])
                   \/ OkFalseOrAbsent(requests'[i]) ) =>
                     (~isSuccess' /\ FormShown' /\ SubmitEnabled') ]_vars
    /\ (isLoading ~> ~isLoading)

(* Each way of completing has happened: a body that did not parse, then a  *)
(* network fault, then ok true.                                            *)
C5_Witness ==
    /\ Len(requests) = 3
    /\ BodyUnparseable(requests[1]) /\ requests[1].pc = "done"
    /\ NetworkFault(requests[2]) /\ requests[2].pc = "done"
    /\ OkTrue(requests[3]) /\ requests[3].pc = "done"
    /\ ~isLoading

(* C6: a non-2xx status, a parsed body whose ok is false or absent, and a  *)
(* network exception each fire exactly one notification, the same generic  *)
(* failure notification, and no success notification; isSuccess stays      *)
(* false.  No other step of the submit (issuing the request, receiving a   *)
(* 2xx response) fires a notification.                                      *)
C6_OneGenericFailureToast ==
    [][ /\ \A i \in 1..Len(requests) :
              ( /\ Completes(i)
                /\ \/ NetworkFault(requests'[i])
                   \/ HttpFailure(requests'[i])
                   \/ OkFalseOrAbsent(requests'[i]) ) =>
                 /\ toasts' = Append(toasts, ErrorToast)
                 /\ ErrorToast.description =
                      "Failed to submit request. Please make sure the backend is running."
                 /\ ~isSuccess /\ ~isSuccess'
        /\ ( /\ Len(requests') = Len(requests)
             /\ requests' # requests
             /\ \A i \in 1..Len(requests) : ~Completes(i) ) => toasts' = toasts
        /\ Len(requests') # Len(requests) => toasts' = toasts ]_vars

(* The three failure modes have each happened once, each with its toast *)
C6_Witness ==
    /\ Len(requests) = 3
    /\ HttpFailure(requests[1]) /\ requests[1].pc = "done"
    /\ OkFalseOrAbsent(requests[2]) /\ requests[2].pc = "done"
    /\ NetworkFault(requests[3]) /\ requests[3].pc = "done"
    /\ toasts = <<ErrorToast, ErrorToast, ErrorToast>>
    /\ ~isSuccess

(* A 2xx response whose body parsed to a JSON value *)
ParsedBody(r) == r.status \in 200..299 /\ r.result.kind \in {"object", "null"}

(* The request ends as a failure: generic failure toast, no success *)
EndsAsFailure ==
    /\ toasts' = Append(toasts, ErrorToast)
    /\ ~isSuccess'

(* C7 as stated: a 2xx response whose parsed body has ok !== true (false,  *)
(* absent, or any value other than the boolean true) is treated as a       *)
(* failure.                                                                *)
C7_Original ==
    [][ \A i \in 1..Len(requests) :
          (Completes(i) /\ ParsedBody(requests'[i]) /\ requests'[i].result.ok # "true")
              => EndsAsFailure ]_vars

(* C7 amended: a 2xx response whose parsed body has a falsy ok (false,     *)
(* absent, 0) or is null is treated as a failure: isSuccess stays false,   *)
(* the generic failure toast fires and no success toast fires.             *)
C7_FalsyOkIsFailure ==
    [][ \A i \in 1..Len(requests) :
          ( /\ Completes(i)
            /\ ParsedBody(requests'[i])
            /\ requests'[i].result.ok \in {"false", "undefined", "0"} )
              => (EndsAsFailure /\ ~isSuccess) ]_vars

(* Bodies with ok false, ok absent and ok 0 have each been answered with   *)
(* the failure toast.                                                      *)
C7_Witness ==
    /\ Len(requests) = 3
    /\ \A i \in 1..3 : requests[i].pc = "done" /\ requests[i].result.kind = "object"
    /\ requests[1].result.ok = "false"
    /\ requests[2].result.ok = "undefined"
    /\ requests[3].result.ok = "0"
    /\ toasts = <<ErrorToast, ErrorToast, ErrorToast>>

(* ViewStatus, as the render derives it from the two flags *)
ViewStatus ==
    IF isSuccess THEN "Succeeded" ELSE IF isLoading THEN "Submitting" ELSE "Idle"

(* C8: with valid inputs and a backend answering 200 {"ok": true} the view *)
(* goes Idle, Submitting, Succeeded with nothing in between: the submit    *)
(* that issues the request goes from Idle to Submitting, the view is       *)
(* Submitting as long as the request is outstanding, the completion goes   *)
(* from Submitting to Succeeded and fires the success toast, and no other  *)
(* toast fires for that request.                                           *)
C8_IdleSubmittingSucceeded ==
    /\ [](Outstanding # {} => ViewStatus = "Submitting")
    /\ [][ /\ Len(requests') # Len(requests) =>
                (ViewStatus = "Idle" /\ ViewStatus' = "Submitting" /\ toasts' = toasts)
           /\ \A i \in 1..Len(requests) :
                (requests[i].pc = "fetch" /\ requests'[i].pc = "json") =>
                    (ViewStatus' = "Submitting" /\ toasts' = toasts)
           /\ \A i \in 1..Len(requests) :
                (Completes(i) /\ requests'[i].status = 200 /\ OkTrue(requests'[i])) =>
                    /\ ViewStatus = "Submitting"
                    /\ ViewStatus' = "Succeeded"
                    /\ toasts' = Append(toasts, SuccessToast)
           /\ (ViewStatus' = "Succeeded" /\ ViewStatus # "Succeeded") =>
                ViewStatus = "Submitting" ]_vars

(* The first submit was answered 200 {"ok": true}: one toast, the success  *)
(* toast, and the view is Succeeded.                                       *)
C8_Witness ==
    /\ Len(requests) = 1
    /\ requests[1].pc = "done"
    /\ requests[1].status = 200
    /\ OkTrue(requests[1])
    /\ toasts = <<SuccessToast>>
    /\ ViewStatus = "Succeeded"

(* C9: a reset is taken from Succeeded and leaves both fields empty and    *)
(* the view Idle (isSuccess false, isLoading false).                       *)
C9_ResetClearsForm ==
    [][ lastOp' = "resetForm" =>
          /\ ViewStatus = "Succeeded"
          /\ formData' = [email |-> EmptyText, article_url |-> EmptyText]
          /\ ~isSuccess'
          /\ ~isLoading'
          /\ ViewStatus' = "Idle" ]_vars

(* A reset taken after a failed and then a successful submission of a      *)
(* form that was edited in between.                                        *)
C9_Witness ==
    /\ lastOp = "resetForm"
    /\ Len(requests) = 2
    /\ requests[1].body.email # EmptyText
    /\ ~OkTrue(requests[1])
    /\ OkTrue(requests[2])
    /\ formData.email = EmptyText
    /\ formData.article_url = EmptyText

(* C10: where isSuccess is false the reset button is not rendered and no   *)
(* reset can occur; a reset step is taken only from Succeeded, and         *)
(* formData is changed only by a field edit or by such a reset.            *)
C10_ResetOnlyFromSucceeded ==
    /\ [](~isSuccess => (~ResetShown /\ ~ENABLED resetForm))
    /\ [][ /\ lastOp' = "resetForm" => isSuccess
           /\ (formData' # formData /\ lastOp' # "handleInputChange") =>
                (lastOp' = "resetForm" /\ isSuccess) ]_vars

(* Submitting again after a success and its reset: filled fields, no reset *)
(* available.                                                              *)
C10_Witness ==
    /\ ~isSuccess
    /\ isLoading
    /\ Len(requests) = 2
    /\ OkTrue(requests[1])
    /\ formData.email # EmptyText

(* C11: a submit that fails validation fires the toast naming the invalid  *)
(* field ("Invalid Email" when the email is invalid, "Invalid URL" when    *)
(* the email is valid and the URL is not), issues no request and leaves    *)
(* formData, isLoading and isSuccess unchanged, the view staying Idle with *)
(* the form shown.                                                         *)
C11_ValidationFailureToast ==
    [][ (lastOp' = "handleSubmit" /\ ~ValidForm(formData)) =>
          /\ Len(toasts') = Len(toasts) + 1
          /\ SubSeq(toasts', 1, Len(toasts)) = toasts
          /\ toasts'[Len(toasts')].title =
                 (IF ~validateEmail(formData.email)
                  THEN "Invalid Email" ELSE "Invalid URL")
          /\ toasts'[Len(toasts')].variant = "destructive"
          /\ requests' = requests
          /\ formData' = formData
          /\ isLoading' = isLoading
          /\ isSuccess' = isSuccess
          /\ ViewStatus = "Idle"
          /\ ViewStatus' = "Idle"
          /\ \A field \in Fields : \A value \in FieldInputs(field) :
                 ENABLED handleInputChange(field, value) ]_vars

(* Both toasts have fired, no request was issued, and the form then took   *)
(* another edit.                                                           *)
C11_Witness ==
    /\ Len(toasts) = 2
    /\ toasts[1].title = "Invalid Email"
    /\ toasts[2].title = "Invalid URL"
    /\ requests = <<>>
    /\ lastOp = "handleInputChange"

(* C12: the body of a request is {email, article_url} with the values      *)
(* formData held at the submit event, and it never changes afterwards,     *)
(* whatever is typed while the request is outstanding.                     *)
C12_PayloadFixedAtSubmit ==
    [][ /\ Len(requests') # Len(requests) =>
              /\ Len(requests') = Len(requests) + 1
              /\ requests'[Len(requests')].body =
                     [email |-> formData.email, article_url |-> formData.article_url]
        /\ \A i \in 1..Len(requests) :
              i <= Len(requests') /\ requests'[i].body = requests[i].body ]_vars

(* While the request is outstanding both fields have been edited away from *)
(* what was sent.                                                          *)
C12_Witness ==
    /\ Len(requests) = 1
    /\ requests[1].pc # "done"
    /\ ValidForm(requests[1].body)
    /\ formData.email # requests[1].body.email
    /\ formData.article_url # requests[1].body.article_url
    /\ lastOp = "handleInputChange"

(* The shape local@domain.tld: a single "@", no whitespace, a non-empty    *)
(* local part, and after the "@" a "." with something on each side         *)
EmailShape(s) ==
    /\ Cardinality(Positions(s, "@")) = 1
    /\ Positions(s, " ") = {}
    /\ LET at == CHOOSE a \in Positions(s, "@") : TRUE
           local == SubSeq(s, 1, at - 1)
           rest == SubSeq(s, at + 1, Len(s))
       IN  /\ local # <<>>
           /\ \E d \in Positions(rest, ".") :
                  SubSeq(rest, 1, d - 1) # <<>> /\ SubSeq(rest, d + 1, Len(rest)) # <<>>

(* No "@", or no "." after the first "@" *)
NoAtOrNoDotAfterAt(s) ==
    \/ Positions(s, "@") = {}
    \/ \A d \in Positions(s, ".") : d < Min(Positions(s, "@"))

UserAtExampleCom ==
    <<"u", "s", "e", "r", "@", "e", "x", "a", "m", "p", "l", "e", ".", "c", "o", "m">>

(* C13: validateEmail is false for every text with no "@" or with no "."   *)
(* after the "@", true for "user@example.com", and over the bounded texts  *)
(* true exactly for the shape local@domain.tld; a submit fires the invalid *)
(* email toast exactly when the typed email does not have that shape.      *)
C13_EmailShape ==
    /\ [] /\ NoAtOrNoDotAfterAt(formData.email) => ~validateEmail(formData.email)
          /\ validateEmail(formData.email) <=> EmailShape(formData.email)
          /\ validateEmail(UserAtExampleCom)
    /\ [][ lastOp' = "handleSubmit" =>
             ( (Len(toasts') = Len(toasts) + 1
                  /\ toasts'[Len(toasts')] = InvalidEmailToast)
               <=> ~EmailShape(formData.email) ) ]_vars

(* A typed email with a dot as its local part and two dots after the "@"   *)
(* was submitted and accepted.                                             *)
C13_Witness ==
    /\ formData.email = <<".", "@", ".", ".", "u">>
    /\ validateEmail(formData.email)
    /\ lastOp = "handleSubmit"
    /\ Len(requests) = 1
    /\ toasts = <<>>

(* The text, its surrounding spaces apart, starts with a scheme: a letter, *)
(* then letters, digits, "+", "-" or ".", then ":"                         *)
SchemePrefix(s) ==
    LET t == StripSpaces(s)
    IN  \E c \in Positions(t, ":") :
            /\ c > 1
            /\ t[1] \in Alpha
            /\ \A k \in 2..(c - 1) : t[k] \in Alpha \cup Digits \cup {"+", "-", "."}

(* scheme://host or scheme://host/... with a non-empty host of letters *)
SchemeSlashSlashHost(s) ==
    LET t == StripSpaces(s)
    IN  \E c \in Positions(t, ":") :
            /\ c > 1
            /\ \A k \in 1..(c - 1) : t[k] \in Alpha
            /\ Len(t) >= c + 3
            /\ t[c + 1] = "/"
            /\ t[c + 2] = "/"
            /\ t[c + 3] \in Alpha
            /\ \A k \in (c + 3)..Len(t) :
                   t[k] \in Alpha \/ \E j \in (c + 4)..k : t[j] = "/"

(* A scheme other than the special ones and file, not followed by "//" *)
SchemeWithoutAuthority(s) ==
    LET t == StripSpaces(s)
    IN  /\ SchemePrefix(s)
        /\ LET c == Min(Positions(t, ":"))
           IN  /\ SubSeq(t, 1, c - 1) \notin
                      { <<"f", "t", "p">>, <<"f", "i", "l", "e">>, <<"h", "t", "t", "p">>,
                        <<"h", "t", "t", "p", "s">>, <<"w", "s">>, <<"w", "s", "s">> }
               /\ ~(Len(t) >= c + 2 /\ t[c + 1] = "/" /\ t[c + 2] = "/")

NotAUrl == <<"n", "o", "t", " ", "a", " ", "u", "r", "l">>

HttpsExampleComA ==
    <<"h", "t", "t", "p", "s", ":", "/", "/",
      "e", "x", "a", "m", "p", "l", "e", ".", "c", "o", "m", "/", "a">>

(* C14 as stated: validateUrl is true if and only if the text parses as an *)
(* absolute URL that has a scheme and an authority; so every text that a   *)
(* submit has accepted parses to a URL with a host.                        *)
C14_Original ==
    (lastOp = "handleSubmit" /\ validateUrl(formData.article_url)) =>
        (SchemePrefix(formData.article_url) /\ ~UrlHostIsNull(formData.article_url))

(* C14 amended: validateUrl is true exactly when new URL(text) parses the  *)
(* text as an absolute URL: every accepted text starts with a scheme (so   *)
(* relative paths and "not a url" are rejected), every text of the form    *)
(* scheme://host[/...] with a host of letters is accepted (so is           *)
(* "https://example.com/a"), and an authority is not needed: a scheme that *)
(* is neither special nor file is accepted with anything but "//" after    *)
(* its ":".  A submit with a valid email issues a request only for a text  *)
(* with a scheme and fires the invalid URL toast for no scheme://host.     *)
C14_AbsoluteUrlAccepted ==
    /\ [] /\ validateUrl(formData.article_url) => SchemePrefix(formData.article_url)
          /\ SchemeSlashSlashHost(formData.article_url) => validateUrl(formData.article_url)
          /\ SchemeWithoutAuthority(formData.article_url) => validateUrl(formData.article_url)
          /\ ~validateUrl(NotAUrl)
          /\ ~validateUrl(<<"/", "a">>)
          /\ validateUrl(HttpsExampleComA)
    /\ [][ (lastOp' = "handleSubmit" /\ validateEmail(formData.email)) =>
             /\ Len(requests') # Len(requests) => SchemePrefix(formData.article_url)
             /\ toasts' # toasts =>
                  /\ toasts'[Len(toasts')] = InvalidUrlToast
                  /\ ~SchemeSlashSlashHost(formData.article_url)
                  /\ ~SchemeWithoutAuthority(formData.article_url) ]_vars

(* A text with a scheme and no authority, "w:s", was submitted and sent *)
C14_Witness ==
    /\ formData.article_url = <<"w", ":", "s">>
    /\ lastOp = "handleSubmit"
    /\ Len(requests) = 1
    /\ requests[1].body.article_url = <<"w", ":", "s">>
    /\ toasts = <<>>

(* C15: a field edit sets the edited field to the typed value and changes  *)
(* nothing else (the other field, isLoading, isSuccess, the requests and   *)
(* the toasts); and wherever the form is shown, also while a request is    *)
(* outstanding, every edit to every value, valid or not, can be taken.     *)
C15_UpdateFieldFrame ==
    /\ [](FormShown =>
            \A field \in Fields : \A value \in FieldInputs(field) :
                ENABLED handleInputChange(field, value))
    /\ [][ lastOp' = "handleInputChange" =>
             /\ \E field \in Fields :
                    /\ formData'[field] \in FieldInputs(field)
                    /\ \A other \in Fields \ {field} : formData'[other] = formData[other]
             /\ isLoading' = isLoading
             /\ isSuccess' = isSuccess
             /\ requests' = requests
             /\ toasts' = toasts ]_vars
    /\ [][ \A field \in Fields : \A value \in FieldInputs(field) :
             handleInputChange(field, value) => formData'[field] = value ]_vars

(* While a request is outstanding the email was edited to an invalid value *)
(* and the URL kept what was sent.                                         *)
C15_Witness ==
    /\ lastOp = "handleInputChange"
    /\ Outstanding # {}
    /\ isLoading
    /\ ~validateEmail(formData.email)
    /\ formData.email # EmptyText
    /\ formData.article_url = requests[Len(requests)].body.article_url

(* Toasts fired at the end of a request, and requests that have ended *)
CompletionToasts == {k \in 1..Len(toasts) : toasts[k].title \in {"Error", "Success"}}

DoneRequests == {i \in 1..Len(requests) : requests[i].pc = "done"}

(* C16: every submit event fires exactly one toast by the time it has      *)
(* completed: a submit on an invalid form fires one at once (the invalid   *)
(* email toast alone when both fields are invalid, else the invalid URL    *)
(* toast), a submit on a valid form fires none until its request           *)
(* completes, the completion fires exactly one (failure or success), and   *)
(* no other step fires any.                                                *)
C16_OneToastPerSubmit ==
    /\ [](Cardinality(CompletionToasts) = Cardinality(DoneRequests))
    /\ [][ /\ lastOp' = "handleSubmit" =>
                IF ValidForm(formData)
                THEN toasts' = toasts /\ Len(requests') = Len(requests) + 1
                ELSE /\ requests' = requests
                     /\ toasts' = Append(toasts,
                                         IF ~validateEmail(formData.email)
                                         THEN InvalidEmailToast ELSE InvalidUrlToast)
           /\ \A i \in 1..Len(requests) : Completes(i) =>
                \/ toasts' = Append(toasts, ErrorToast)
                \/ toasts' = Append(toasts, SuccessToast)
           /\ ( /\ lastOp' # "handleSubmit"
                /\ \A i \in 1..Len(requests) : ~Completes(i) ) => toasts' = toasts ]_vars

(* After a failed request, a submit with both fields invalid has fired the *)
(* invalid email toast and nothing else.                                   *)
C16_Witness ==
    /\ lastOp = "handleSubmit"
    /\ ~validateEmail(formData.email)
    /\ ~validateUrl(formData.article_url)
    /\ toasts = <<ErrorToast, InvalidEmailToast>>
    /\ Len(requests) = 1

(* C17: isSuccess becomes true only in the step that completes a request   *)
(* whose response had a 2xx status and a parsed body with a truthy ok;     *)
(* while isSuccess is true no request is outstanding, no step is a submit  *)
(* and no request is issued, and isSuccess is left only by a reset.        *)
C17_SucceededOnlyByOkResponse ==
    /\ [](isSuccess => Outstanding = {})
    /\ [][ /\ (~isSuccess /\ isSuccess') =>
                \E i \in 1..Len(requests) :
                    /\ Completes(i)
                    /\ requests'[i].status \in 200..299
                    /\ requests'[i].result.kind = "object"
                    /\ requests'[i].result.ok \notin {"false", "undefined", "0"}
           /\ isSuccess =>
                /\ lastOp' # "handleSubmit"
                /\ requests' = requests
           /\ (isSuccess /\ ~isSuccess') => lastOp' = "resetForm" ]_vars

(* Succeeded for the second time, after a reset in between *)
C17_Witness ==
    /\ isSuccess
    /\ Len(requests) = 2
    /\ OkTrue(requests[1])
    /\ OkTrue(requests[2])
    /\ requests[2].pc = "done"
    /\ lastOp = "jsonResolved"

(* C18: isLoading and isSuccess are never both true, so the two flags      *)
(* encode exactly Idle (neither), Submitting (isLoading) and Succeeded     *)
(* (isSuccess); this includes the state rendered after the completion of a *)
(* successful request, which sets isSuccess and clears isLoading.          *)
C18_FlagsExclusive ==
    /\ ~(isLoading /\ isSuccess)
    /\ (ViewStatus = "Idle") = (~isLoading /\ ~isSuccess)
    /\ (ViewStatus = "Submitting") = (isLoading /\ ~isSuccess)
    /\ (ViewStatus = "Succeeded") = (isSuccess /\ ~isLoading)

(* The state rendered right after the first successful completion *)
C18_Witness ==
    /\ lastOp = "jsonResolved"
    /\ isSuccess
    /\ ~isLoading
    /\ Len(requests) = 1
    /\ requests[1].pc = "done"

(* C19: no step that resolves or rejects a request changes formData, so    *)
(* after a completion the fields hold what the edits last set; and after a *)
(* failure a submit on a valid form issues a fresh request carrying        *)
(* formData, with no response recorded, and sets isLoading.                *)
C19_CompletionKeepsForm ==
    [][ /\ lastOp' \in {"fetchRejected", "fetchResolved",
                        "jsonRejected", "jsonResolved"} => formData' = formData
        /\ \A i \in 1..Len(requests) : Completes(i) => formData' = formData
        /\ ( /\ lastOp' = "handleSubmit"
             /\ ValidForm(formData)
             /\ requests # <<>> ) =>
               /\ requests[Len(requests)].pc = "done"
               /\ requests' = Append(requests,
                      [body |-> [email |-> formData.email,
                                 article_url |-> formData.article_url],
                       pc |-> "fetch", status |-> 0,
                       result |-> [kind |-> "none", ok |-> "undefined"]])
               /\ isLoading'
               /\ ~isSuccess'
               /\ toasts' = toasts ]_vars

(* After a failed request the same valid inputs were submitted again and a *)
(* second request is outstanding.                                          *)
C19_Witness ==
    /\ Len(requests) = 2
    /\ requests[1].pc = "done"
    /\ ~OkTrue(requests[1])
    /\ toasts = <<ErrorToast>>
    /\ requests[2].pc = "fetch"
    /\ requests[2].body = requests[1].body
    /\ formData.email = requests[2].body.email
    /\ lastOp = "handleSubmit"
====
